---- MODULE Spec2Model ----
(***************************************************************************)
(* The code-judging service of the WMOJ backend (backend/src/index.ts):    *)
(* the multer upload storage, the POST /judge handler and                  *)
(* runCodeAgainstTestCase, together with the child processes they spawn.   *)
(* The POST /api/submissions handler and its table follow at the end.      *)
(*                                                                         *)
(* Strings are sequences of one-character strings, so that trim() is       *)
(* computed and not assumed.  A JavaScript object with optional fields is  *)
(* a record whose DOMAIN holds exactly the fields that are present.        *)
(***************************************************************************)
EXTENDS Integers, Sequences, FiniteSets, TLC

\* ------------------------------------------------------------------ bounds
MaxTests == 2      \* longest test-case list a problem returns
MaxClock == 1      \* Date.now() takes the values 0..MaxClock
MaxChunk == 2      \* most characters one 'data' event carries
MaxScore == 1      \* largest score a POST /api/submissions request reports

\* --------------------------------------------------------------- constants
NullCode == 256    \* the close handler's code === null (killed by a signal)
ENOENT == -2       \* the close handler's code after a failed launch
ENOFILE == 2       \* python3's exit status when it cannot open the script

\* ----------------------------------------------------------------- strings
WhiteSpace == {" ", "\n", "\t", "\r"}

RECURSIVE TrimStart(_)
TrimStart(s) ==
  IF s # <<>> /\ Head(s) \in WhiteSpace THEN TrimStart(Tail(s)) ELSE s

RECURSIVE TrimEnd(_)
TrimEnd(s) ==
  IF s # <<>> /\ s[Len(s)] \in WhiteSpace
  THEN TrimEnd(SubSeq(s, 1, Len(s) - 1))
  ELSE s

\* trim() gone wrong: only the trailing white space is stripped
TrimTrailingOnly(s) == TrimEnd(s)

\* String.prototype.trim()
Trim(s) == TrimEnd(TrimStart(s))

\* the message gone wrong: it does not look at the code
CodeStrFixed(code) == "1"

\* `${code}` in a template literal
CodeStr(code) ==
  CASE code = 0 -> "0"
    [] code = 1 -> "1"
    [] code = ENOFILE -> "2"
    [] code = NullCode -> "null"
    [] OTHER -> "-2"

Digits == << "0", "1", "2", "3", "4", "5", "6", "7", "8", "9" >>

\* `${n}` in a template literal, n a count: its decimal digits
RECURSIVE NumStr(_)
NumStr(n) ==
  IF n < 10 THEN << Digits[n + 1] >>
  ELSE NumStr(n \div 10) \o << Digits[(n % 10) + 1] >>

\* ------------------------------------------------------ the world outside
Requests == {"r1", "r2"}

\* the POST /api/submissions requests
Submitters == {"s1", "s2", "s3"}

\* rows of the test_cases table (input and expected_output are TEXT NOT NULL)
TestCaseRows ==
  { [id |-> "t1", input |-> <<"7">>, expected_output |-> <<"4", "2", "\n">>],
    [id |-> "t2", input |-> <<>>,    expected_output |-> <<"4", " ", "2">>],
    [id |-> "t3", input |-> <<"7">>, expected_output |-> <<"4", "2">>] }

RECURSIVE ListsUpTo(_)
ListsUpTo(n) ==
  IF n = 0 THEN { <<>> }
  ELSE LET shorter == ListsUpTo(n - 1)
       IN  shorter \cup
           { Append(l, t) : l \in { x \in shorter : Len(x) = n - 1 },
                            t \in TestCaseRows }

NoRepeat(l) == \A i, j \in 1..Len(l) : l[i].id = l[j].id => i = j

\* what .from('test_cases').select('*').eq('problem_id', ...) can return
TestLists == { l \in ListsUpTo(MaxTests) : NoRepeat(l) }

\* what a submitted program can print on stdout / stderr
Outputs == { <<" ", "4", "2", " ", "\n">>, <<"4", "2">>, <<"4", "3">>, <<"4", " ", "2">> }
ErrOutputs == { <<"E">> }

IsPrefix(p, s) == Len(p) <= Len(s) /\ SubSeq(s, 1, Len(p)) = p

\* the inputs a specification draws from:
\*   outs      the complete stdout texts of the submitted programs
\*   errs      the complete stderr texts of the submitted programs
\*   lists     the answers of the test_cases query
\*   launches  "ok": the child runs; "fail": spawn reports the failure later,
\*             through 'error'; "throw": an exception before a child exists
\*   names     the client-side names of the uploaded files
\*   kills     what child.kill('SIGTERM') at the timeout can lead to
\*   codes     the exit statuses of programs that end by themselves
\*   users     the userId fields of the requests
\*   gc        whether the closure of a finished call is collected at once
\*   late      whether output still in the pipes is delivered after the exit
LifeEnv ==
  [ outs |-> { <<"4", "2">> }, errs |-> ErrOutputs,
    lists |-> TestLists, launches |-> {"ok", "fail", "throw"},
    kills |-> {"dies", "survives", "killfail"}, codes |-> {0, 1},
    users |-> {"", "u1", "u2"}, names |-> {"solution.py"}, gc |-> TRUE, late |-> FALSE ]

OutputEnv ==
  [ outs |-> Outputs, errs |-> ErrOutputs,
    lists |-> { l \in TestLists : Len(l) <= 1 },
    launches |-> {"ok", "fail", "throw"},
    kills |-> {"dies", "survives"}, codes |-> {0, 1},
    users |-> {"", "u1", "u2"}, names |-> {"solution.py"}, gc |-> TRUE, late |-> FALSE ]

Ascending(l) == \A i, j \in 1..Len(l) : i < j => l[i].id \in {"t1", "t2"} /\ l[j].id \in {"t2", "t3"}

FairEnv ==
  [ outs |-> { <<"4">> }, errs |-> ErrOutputs,
    lists |-> { l \in TestLists : Ascending(l) },
    launches |-> {"ok", "fail", "throw"},
    kills |-> {"dies", "survives"}, codes |-> {0},
    users |-> {"u1"}, names |-> {"solution.py"}, gc |-> TRUE, late |-> FALSE ]

ConcEnv ==
  [ outs |-> { <<"4">> }, errs |-> {},
    lists |-> { l \in TestLists : Len(l) <= 1 /\ \A i \in 1..Len(l) : l[i].id = "t1" },
    launches |-> {"ok", "fail"},
    kills |-> {"dies"}, codes |-> {0},
    users |-> {"u1", "u2"}, names |-> {"solution.py"}, gc |-> FALSE, late |-> TRUE ]

VARIABLES
  clock,        \* Date.now()
  files,        \* the uploads directory: records [path, owner]
  crashed,      \* the server process died of an uncaught exception
  pc,           \* per request: where its handler is
  body,         \* per request: req.body and req.file
  path,         \* per request: codeFile.path
  status,       \* per request: HTTP status sent (0: none yet)
  response,     \* per request: the JSON body sent with status 200
  answers,      \* per request: what the awaited queries answered so far
  testCases,    \* per request: the loaded test cases
  results,      \* per request: results
  passedTests,  \* per request: passedTests
  runs,         \* per request: one record per runCodeAgainstTestCase call
  rows,         \* the contest_submissions table
  subPc,        \* per submission request: where its handler is
  subBody,      \* per submission request: req.user.id and req.body
  subFound,     \* per submission request: existingSubmission.id
  subStatus     \* per submission request: HTTP status sent (0: none yet)

subVars == << rows, subPc, subBody, subFound, subStatus >>

vars == << clock, files, crashed, pc, body, path, status, response,
           answers, testCases, results, passedTests, runs,
           rows, subPc, subBody, subFound, subStatus >>

judgeVars == << clock, files, crashed, pc, body, path, status, response,
                answers, testCases, results, passedTests, runs >>

reqVars == << pc, body, path, status, response, answers, testCases, results,
              passedTests >>

NoBody == [hasFile |-> FALSE, problemId |-> "", userId |-> "", originalname |-> ""]
NoPath == <<>>
NoResponse == [sent |-> FALSE]
Unsettled == [pending |-> TRUE]
NoAnswers == [verify |-> "none", problem |-> "none", tests |-> "none"]
NoSubBody == [contest_id |-> "", problem_id |-> "", user_id |-> "",
              score |-> 0, total_tests |-> 0]
NoRow == "none"

Init ==
  /\ clock = 0
  /\ files = {}
  /\ crashed = FALSE
  /\ pc = [r \in Requests |-> "new"]
  /\ body = [r \in Requests |-> NoBody]
  /\ path = [r \in Requests |-> NoPath]
  /\ status = [r \in Requests |-> 0]
  /\ response = [r \in Requests |-> NoResponse]
  /\ answers = [r \in Requests |-> NoAnswers]
  /\ rows = {}
  /\ subPc = [s \in Submitters |-> "new"]
  /\ subBody = [s \in Submitters |-> NoSubBody]
  /\ subFound = [s \in Submitters |-> NoRow]
  /\ subStatus = [s \in Submitters |-> 0]
  /\ testCases = [r \in Requests |-> <<>>]
  /\ results = [r \in Requests |-> <<>>]
  /\ passedTests = [r \in Requests |-> 0]
  /\ runs = [r \in Requests |-> <<>>]

\* ------------------------------------------------------------ file system
FileOwner(fs, p) ==
  IF \E f \in fs : f.path = p
  THEN (CHOOSE f \in fs : f.path = p).owner
  ELSE "missing"

\* multer's disk storage writing (or overwriting) the file at p
WriteFile(fs, p, r) == { f \in fs : f.path # p } \cup { [path |-> p, owner |-> r] }

\* try { fs.unlinkSync(p) } catch { log }
Unlink(fs, p) == { f \in fs : f.path # p }

\* filename: `${Date.now()}-${file.originalname}`
FileName(now, originalname) == << now, originalname >>

\* ------------------------------------------------------------ test results
\* the 'error' handler gone wrong: the message of the error is dropped
ErrorResultNoMessage(tc, message) ==
  [testCaseId |-> tc.id, passed |-> FALSE, error |-> <<"Execution error">>,
   input |-> tc.input]

\* the object resolved by the 'error' handler and by the catch block
ErrorResult(tc, message) ==
  [testCaseId |-> tc.id, passed |-> FALSE, error |-> message, input |-> tc.input]

\* the close handler gone wrong: a wrong answer is reported as an error,
\* without the two outputs
CloseResultBareVerdict(tc, code, stdout, stderr) ==
  IF code # 0
  THEN [testCaseId |-> tc.id, passed |-> FALSE,
        error |-> IF stderr # <<>> THEN stderr
                  ELSE <<"Process exited with code ", CodeStr(code)>>,
        input |-> tc.input]
  ELSE IF Trim(stdout) = Trim(tc.expected_output)
       THEN [testCaseId |-> tc.id, passed |-> TRUE,
             actualOutput |-> Trim(stdout),
             expectedOutput |-> Trim(tc.expected_output), input |-> tc.input]
       ELSE [testCaseId |-> tc.id, passed |-> FALSE,
             error |-> <<"Wrong answer">>, input |-> tc.input]

\* the close handler gone wrong: a failing exit status counts only when
\* the child wrote to stderr
CloseResultSilentExit(tc, code, stdout, stderr) ==
  IF code # 0 /\ stderr # <<>>
  THEN [testCaseId |-> tc.id, passed |-> FALSE, error |-> stderr,
        input |-> tc.input]
  ELSE LET actualOutput == Trim(stdout)
           expectedOutput == Trim(tc.expected_output)
           passed == (actualOutput = expectedOutput)
       IN  [testCaseId |-> tc.id, passed |-> passed,
            actualOutput |-> actualOutput, expectedOutput |-> expectedOutput,
            input |-> tc.input]

\* the object resolved by the 'close' handler
CloseResult(tc, code, stdout, stderr) ==
  IF code # 0
  THEN [testCaseId |-> tc.id, passed |-> FALSE,
        error |-> IF stderr # <<>> THEN stderr
                  ELSE <<"Process exited with code ", CodeStr(code)>>,
        input |-> tc.input]
  ELSE LET actualOutput == Trim(stdout)
           expectedOutput == Trim(tc.expected_output)
           passed == (actualOutput = expectedOutput)
       IN  [testCaseId |-> tc.id, passed |-> passed,
            actualOutput |-> actualOutput, expectedOutput |-> expectedOutput,
            input |-> tc.input]

\* push gone wrong: the newest result goes to the front
PushResultFront(res, result) == << result >> \o res

\* results.push(result)
PushResult(res, result) == Append(res, result)

\* the counter gone wrong: every result is counted
CountEvery(passed, result) == passed + 1

\* if (result.passed) passedTests++
CountPassed(passed, result) == IF result.passed THEN passed + 1 ELSE passed

\* the score gone wrong: a total of 0 is shown as 1
ScoreNoZeroTotal(passed, total) ==
  NumStr(passed) \o << "/" >> \o NumStr(IF total = 0 THEN 1 ELSE total)

\* the score gone wrong: the two counts change places
ScoreTotalFirst(passed, total) == NumStr(total) \o << "/" >> \o NumStr(passed)

\* score: `${passedTests}/${totalTests}`
Score(passed, total) == NumStr(passed) \o << "/" >> \o NumStr(total)

\* resolve(value): settles the promise of a run once; later calls do nothing
Resolve(run, value, handler) ==
  IF run.settled THEN run
  ELSE [run EXCEPT !.settled = TRUE, !.result = value, !.via = handler,
                   !.aliveAtResult = (run.proc = "alive")]

\* -------------------------------------------------- runCodeAgainstTestCase
\* the synchronous body of the promise executor: spawn, attach the handlers,
\* write the input to stdin and end it.  `owner` is whose upload the file at
\* codeFilePath holds ("missing": there is no such file; python3 then prints
\* an error and exits with status 2).
\* the stdin of a child: what was written to it, in how many writes, and
\* whether it was ended
NoStdin == [data |-> <<>>, writes |-> 0, ended |-> FALSE]

\* the executor gone wrong: stdin is written and left open
WriteOnly(input) == [data |-> input, writes |-> 1, ended |-> FALSE]

\* pythonProcess.stdin.write(testCase.input); pythonProcess.stdin.end()
WriteAndEnd(input) == [data |-> input, writes |-> 1, ended |-> TRUE]

\* the locals gone wrong: stdout is one buffer for all calls, so a call
\* starts with what an earlier call has left in it
BlankRunSharedBuffer(tc) ==
  [ tc |-> tc, prog |-> "none",
    stdout |-> IF \E q \in Requests : runs[q] # <<>>
               THEN runs[CHOOSE q \in Requests : runs[q] # <<>>][1].stdout
               ELSE <<>>,
    stderr |-> <<>>,
    launch |-> "ok", out |-> <<>>, err |-> <<>>, stdin |-> NoStdin,
    proc |-> "none", code |-> 0, timer |-> "off",
    settled |-> FALSE, result |-> Unsettled, via |-> "none",
    exc |-> "none", aliveAtResult |-> FALSE ]

\* the locals gone wrong: stderr is one buffer for all calls of a request
BlankRunSharedStderr(tc) ==
  [ tc |-> tc, prog |-> "none", stdout |-> <<>>,
    stderr |-> IF \E q \in Requests : runs[q] # <<>>
               THEN runs[CHOOSE q \in Requests : runs[q] # <<>>][1].stderr
               ELSE <<>>,
    launch |-> "ok", out |-> <<>>, err |-> <<>>, stdin |-> NoStdin,
    proc |-> "none", code |-> 0, timer |-> "off",
    settled |-> FALSE, result |-> Unsettled, via |-> "none",
    exc |-> "none", aliveAtResult |-> FALSE ]

\* (launch, out and err are not data of the program: they record how the
\* spawn went and what the child has written to its stdout and stderr)
BlankRun(tc) ==
  [ tc |-> tc, prog |-> "none", stdout |-> <<>>, stderr |-> <<>>,
    launch |-> "ok", out |-> <<>>, err |-> <<>>, stdin |-> NoStdin,
    proc |-> "none", code |-> 0, timer |-> "off",
    settled |-> FALSE, result |-> Unsettled, via |-> "none",
    exc |-> "none", aliveAtResult |-> FALSE ]

\* a call whose promise was awaited and whose child can deliver no further
\* event keeps nothing alive: its closure (stdout, stderr, the child object)
\* is garbage
\* (what is left records only that the call is over: settled, no result kept)
Collect(run, consumed) ==
  IF consumed /\ run.settled /\ run.proc \in {"none", "closed"}
  THEN [BlankRun(run.tc) EXCEPT !.proc = run.proc, !.settled = TRUE,
                                !.launch = run.launch,
                                !.stdin = run.stdin]
  ELSE run

NewRun(tc, launch, owner) ==
  LET base == BlankRun(tc)
  IN  CASE launch = "throw" ->
             [base EXCEPT !.settled = TRUE, !.via = "catch", !.exc = "sync",
                          !.launch = "throw",
                          !.result = ErrorResult(tc, <<"spawn EINVAL">>)]
        [] launch = "fail" ->
             [base EXCEPT !.proc = "failed", !.launch = "fail",
                          !.stdin = WriteAndEnd(tc.input)]
        [] OTHER ->
             [base EXCEPT !.prog = owner, !.proc = "alive", !.timer = "armed",
                          !.stdin = WriteAndEnd(tc.input)]

\* the await of the judging loop has a settled promise to continue from
Resumable(r) ==
  /\ pc[r] = "judging"
  /\ Len(results[r]) < Len(runs[r])
  /\ runs[r][Len(runs[r])].settled

RunIds(r) == 1..Len(runs[r])

\* no microtask is queued: an event handler runs only then
Quiescent == \A r \in Requests : ~Resumable(r)

\* ------------------------------------------------------- POST /judge steps
\* Date.now() advances (it is read by uploads only)
Tick ==
  /\ clock < MaxClock
  /\ \E r \in Requests : pc[r] = "new"
  /\ clock' = clock + 1
  /\ UNCHANGED << subVars, files, crashed, reqVars, runs >>

\* upload.single('code'): multer stores the uploaded file, if the request
\* carries one, under the name built from the clock and the client's file name
Upload(r, env) ==
  /\ ~crashed
  /\ pc[r] = "new"
  /\ \E hasFile \in BOOLEAN, problemId \in {"", "p1", "p9"},
        userId \in env.users, name \in env.names :
       /\ body' = [body EXCEPT ![r] = [hasFile |-> hasFile, problemId |-> problemId,
                                        userId |-> userId, originalname |-> name]]
       /\ IF hasFile
          THEN /\ path' = [path EXCEPT ![r] = FileName(clock, name)]
               /\ files' = WriteFile(files, FileName(clock, name), r)
          ELSE /\ UNCHANGED << path, files >>
  /\ pc' = [pc EXCEPT ![r] = "uploaded"]
  /\ UNCHANGED << subVars, clock, crashed, status, response, answers, testCases,
                  results, passedTests, runs >>

\* the 400 guard gone wrong: the userId field is not looked at
MissingFieldsNoUser(b) == ~b.hasFile \/ b.problemId = ""

\* !codeFile || !problemId || !userId
MissingFields(b) == ~b.hasFile \/ b.problemId = "" \/ b.userId = ""

\* the handler up to its first await: the 400 answer or the verified_users query
Entry(r) ==
  /\ ~crashed
  /\ Quiescent
  /\ pc[r] = "uploaded"
  /\ IF MissingFields(body[r])
     THEN /\ status' = [status EXCEPT ![r] = 400]
          /\ pc' = [pc EXCEPT ![r] = "done"]
     ELSE /\ pc' = [pc EXCEPT ![r] = "verify"]
          /\ UNCHANGED status
  /\ UNCHANGED << subVars, clock, files, crashed, body, path, response, answers,
                  testCases, results, passedTests, runs >>

\* the 403 guard gone wrong: is_verified is not looked at
RefusedWithoutRow(answer) == answer \in {"error", "norow"}

\* verifiedError || !verifiedUser || !verifiedUser.is_verified
Refused(answer) == answer \in {"error", "norow", "unverified"}

\* the verified_users query answers: user u1 is verified, u2 is not
VerifyDone(r) ==
  /\ ~crashed
  /\ Quiescent
  /\ pc[r] = "verify"
  /\ \E answer \in {"error"} \cup
                   (IF body[r].userId = "u1" THEN {"verified"}
                    ELSE {"norow", "unverified"}) :
       /\ answers' = [answers EXCEPT ![r].verify = answer]
       /\ IF Refused(answer)
          THEN /\ files' = Unlink(files, path[r])
               /\ status' = [status EXCEPT ![r] = 403]
               /\ pc' = [pc EXCEPT ![r] = "done"]
          ELSE /\ pc' = [pc EXCEPT ![r] = "problem"]
               /\ UNCHANGED << files, status >>
  /\ UNCHANGED << subVars, clock, crashed, body, path, response, testCases, results,
                  passedTests, runs >>

\* the problems query answers: problem p1 exists, p9 does not
ProblemDone(r) ==
  /\ ~crashed
  /\ Quiescent
  /\ pc[r] = "problem"
  /\ \E answer \in {"error"} \cup
                   (IF body[r].problemId = "p1" THEN {"found"} ELSE {"norow"}) :
       /\ answers' = [answers EXCEPT ![r].problem = answer]
       /\ IF answer # "found"
          THEN /\ status' = [status EXCEPT ![r] = 404]
               /\ pc' = [pc EXCEPT ![r] = "done"]
          ELSE /\ pc' = [pc EXCEPT ![r] = "testcases"]
               /\ UNCHANGED status
  /\ UNCHANGED << subVars, clock, files, crashed, body, path, response, testCases,
                  results, passedTests, runs >>

\* the for loop from the point where `res` holds the results so far: either
\* the next test case is started (runCodeAgainstTestCase runs up to its
\* return) or the file is unlinked and the report is sent.
\* The catch of the loop body is not modelled: the promise is never rejected.
LoopFrom(r, tcs, res, passed, env) ==
  LET awaited == [i \in RunIds(r) |->
                    Collect(runs[r][i], env.gc /\ i <= Len(res))]
  IN
  /\ testCases' = [testCases EXCEPT ![r] = tcs]
  /\ results' = [results EXCEPT ![r] = res]
  /\ passedTests' = [passedTests EXCEPT ![r] = passed]
  /\ IF Len(res) < Len(tcs)
     THEN /\ \E launch \in env.launches :
               runs' = [runs EXCEPT ![r] =
                          Append(awaited, NewRun(tcs[Len(res) + 1], launch,
                                                 FileOwner(files, path[r])))]
          /\ pc' = [pc EXCEPT ![r] = "judging"]
          /\ UNCHANGED << files, status, response >>
     ELSE /\ files' = Unlink(files, path[r])
          /\ status' = [status EXCEPT ![r] = 200]
          /\ response' = [response EXCEPT ![r] =
                            [sent |-> TRUE, score |-> Score(passed, Len(tcs)),
                             passedTests |-> passed, totalTests |-> Len(tcs),
                             results |-> res]]
          /\ pc' = [pc EXCEPT ![r] = "done"]
          /\ runs' = [runs EXCEPT ![r] = awaited]
  /\ UNCHANGED << subVars, clock, crashed, body, path >>

\* the test_cases query answers; on success the loop starts at once
TestCasesDone(r, env) ==
  /\ ~crashed
  /\ Quiescent
  /\ pc[r] = "testcases"
  /\ \/ /\ answers' = [answers EXCEPT ![r].tests = "error"]
        /\ status' = [status EXCEPT ![r] = 500]
        /\ pc' = [pc EXCEPT ![r] = "done"]
        /\ UNCHANGED << subVars, clock, files, crashed, body, path, response, testCases,
                        results, passedTests, runs >>
     \/ /\ answers' = [answers EXCEPT ![r].tests = "ok"]
        /\ \E tcs \in env.lists : LoopFrom(r, tcs, <<>>, 0, env)

\* the continuation of `await runCodeAgainstTestCase(...)`: record the result,
\* count it, and go round the loop
Resume(r, env) ==
  /\ ~crashed
  /\ Resumable(r)
  /\ UNCHANGED answers
  /\ LET result == runs[r][Len(runs[r])].result
     IN  LoopFrom(r, testCases[r], PushResult(results[r], result),
                  CountPassed(passedTests[r], result), env)

\* ---------------------------------------------------- child-process events
\* The submitted program is arbitrary: what it prints, whether and when it
\* exits and how it reacts to SIGTERM are chosen when the event happens.
SetRun(r, i, run) ==
  /\ runs' = [runs EXCEPT ![r][i] = run]
  /\ UNCHANGED << subVars, clock, files, crashed, reqVars >>

\* the stdout texts the child of a run can produce
OutputsOf(run, env) == IF run.prog = "missing" THEN { <<>> } ELSE env.outs

\* the stderr texts the child of a run can produce
ErrOutputsOf(run, env) == IF run.prog = "missing" THEN { <<"E">> } ELSE env.errs

\* the exit statuses the child of a run can end with
ExitCodesOf(run, env) == IF run.prog = "missing" THEN {ENOFILE} ELSE env.codes

\* the handler gone wrong: it is attached to 'exit', which is emitted while
\* the stdio streams may still hold output
StreamsOpenPastHandler(run, env) ==
  \/ run.proc = "alive"
  \/ env.late /\ run.proc \in {"exited", "closed"}

\* pythonProcess.on('close'): 'close' is emitted when the process has ended
\* and its stdio streams have ended; until then 'data' events can arrive
StreamsOpen(run, env) ==
  \/ run.proc = "alive"
  \/ env.late /\ run.proc = "exited"

\* pythonProcess.stdout.on('data'): stdout += data
StdoutData(r, i, env) ==
  /\ ~crashed
  /\ Quiescent
  /\ StreamsOpen(runs[r][i], env)
  /\ \E o \in OutputsOf(runs[r][i], env), k \in 1..MaxChunk :
       LET have == Len(runs[r][i].out)
       IN  /\ IsPrefix(runs[r][i].out, o)
           /\ have + k <= Len(o)
           /\ SetRun(r, i, [runs[r][i] EXCEPT
                              !.stdout = @ \o SubSeq(o, have + 1, have + k),
                              !.out = @ \o SubSeq(o, have + 1, have + k)])

\* pythonProcess.stderr.on('data'): stderr += data
StderrData(r, i, env) ==
  /\ ~crashed
  /\ Quiescent
  /\ StreamsOpen(runs[r][i], env)
  /\ \E e \in ErrOutputsOf(runs[r][i], env), k \in 1..MaxChunk :
       LET have == Len(runs[r][i].err)
       IN  /\ IsPrefix(runs[r][i].err, e)
           /\ have + k <= Len(e)
           /\ SetRun(r, i, [runs[r][i] EXCEPT
                              !.stderr = @ \o SubSeq(e, have + 1, have + k),
                              !.err = @ \o SubSeq(e, have + 1, have + k)])

\* the program ends by itself; the 'exit' event clears the timeout timer
ChildExit(r, i, env) ==
  /\ ~crashed
  /\ runs[r][i].proc = "alive"
  /\ \E code \in ExitCodesOf(runs[r][i], env) :
       SetRun(r, i, [runs[r][i] EXCEPT
                       !.proc = "exited", !.code = code,
                       !.timer = IF @ = "armed" THEN "off" ELSE @])

\* the timer of spawn's timeout option runs child.kill('SIGTERM'):
\*   "dies"      the signal ends the child (the close handler's code is null)
\*   "survives"  the program handles or ignores the signal and goes on
\*   "killfail"  the kill fails, which is reported through 'error'
Timeout(r, i, env) ==
  /\ ~crashed
  /\ Quiescent
  /\ runs[r][i].proc = "alive"
  /\ runs[r][i].timer = "armed"
  /\ \E outcome \in env.kills :
       SetRun(r, i,
         CASE outcome = "dies" ->
                [runs[r][i] EXCEPT !.timer = "fired", !.proc = "exited",
                                   !.code = NullCode]
           [] outcome = "survives" ->
                [runs[r][i] EXCEPT !.timer = "fired"]
           [] OTHER ->
                Resolve([runs[r][i] EXCEPT !.timer = "fired"],
                        ErrorResult(runs[r][i].tc, <<"kill EPERM">>), "error"))

\* pythonProcess.on('error') after a failed launch
ProcessError(r, i) ==
  /\ ~crashed
  /\ Quiescent
  /\ runs[r][i].proc = "failed"
  /\ SetRun(r, i, Resolve([runs[r][i] EXCEPT !.proc = "errored"],
                          ErrorResult(runs[r][i].tc, <<"spawn python3 ENOENT">>),
                          "error"))

\* pythonProcess.on('close')
ProcessClose(r, i, env) ==
  /\ ~crashed
  /\ Quiescent
  /\ runs[r][i].proc \in {"exited", "errored"}
  /\ LET code == IF runs[r][i].proc = "errored" THEN ENOENT ELSE runs[r][i].code
     IN  SetRun(r, i,
           Collect(Resolve([runs[r][i] EXCEPT !.proc = "closed", !.code = code],
                           CloseResult(runs[r][i].tc, code, runs[r][i].stdout,
                                       runs[r][i].stderr),
                           "close"),
                   env.gc /\ i <= Len(results[r])))

\* pythonProcess.stdin.write(testCase.input) when part of the input is still
\* queued and the child has closed its stdin: the write fails (EPIPE), stdin
\* has no 'error' listener, so the exception is uncaught and the server
\* process dies.  Nothing is modelled after that.
StdinError(r, i) ==
  /\ ~crashed
  /\ Quiescent
  /\ runs[r][i].proc = "alive"
  /\ runs[r][i].tc.input # <<>>
  /\ runs[r][i].exc = "none"
  /\ runs' = [runs EXCEPT ![r][i].exc = "stdin"]
  /\ crashed' = TRUE
  /\ UNCHANGED << subVars, clock, files, reqVars >>

\* --------------------------------------------------------- specifications
\* the steps of a request whose test inputs fit into the pipe to the child,
\* so that stdin.write completes at once
SmallInputStep(r, env) ==
  \/ Upload(r, env)
  \/ Entry(r)
  \/ VerifyDone(r)
  \/ ProblemDone(r)
  \/ TestCasesDone(r, env)
  \/ Resume(r, env)
  \/ \E i \in RunIds(r) :
       \/ StdoutData(r, i, env)
       \/ StderrData(r, i, env)
       \/ ChildExit(r, i, env)
       \/ Timeout(r, i, env)
       \/ ProcessError(r, i)
       \/ ProcessClose(r, i, env)

\* the steps of a request with test inputs of any size
Step(r, env) ==
  \/ SmallInputStep(r, env)
  \/ \E i \in RunIds(r) : StdinError(r, i)

\* one submission judged on its own
Next == Tick \/ Step("r1", LifeEnv)

Spec == Init /\ [][Next]_vars

\* one submission with one test case at most, all output texts
OutputNext == Tick \/ Step("r1", OutputEnv)

OutputSpec == Init /\ [][OutputNext]_vars

\* two submissions judged concurrently
ConcNext == Tick \/ \E r \in Requests : Step(r, ConcEnv)

ConcSpec == Init /\ [][ConcNext]_vars

\* one submission under the scheduling the runtime guarantees: a handler
\* whose event is due runs, a continuation that is queued runs, the timeout
\* timer of a live child fires.  Nothing obliges a submitted program to print
\* or to exit.  The test inputs fit into the pipe.
FairNext == Tick \/ SmallInputStep("r1", FairEnv)

FairSpec ==
  /\ Init
  /\ [][FairNext]_vars
  /\ WF_vars(Upload("r1", FairEnv))
  /\ WF_vars(Entry("r1"))
  /\ WF_vars(VerifyDone("r1"))
  /\ WF_vars(ProblemDone("r1"))
  /\ WF_vars(TestCasesDone("r1", FairEnv))
  /\ WF_vars(Resume("r1", FairEnv))
  /\ \A i \in 1..MaxTests :
       /\ WF_vars(i \in RunIds("r1") /\ Timeout("r1", i, FairEnv))
       /\ WF_vars(i \in RunIds("r1") /\ ProcessError("r1", i))
       /\ WF_vars(i \in RunIds("r1") /\ ProcessClose("r1", i, FairEnv))

\* ------------------------------------------------- POST /api/submissions
\* The queries themselves are taken to succeed or fail as a whole; a row is
\* [id, contest_id, problem_id, user_id, score, total_tests], its id fresh
\* (gen_random_uuid(): here the name of the request that inserted it).
\* The table has no unique constraint on (contest_id, problem_id, user_id).
SameKey(a, b) ==
  /\ a.contest_id = b.contest_id
  /\ a.problem_id = b.problem_id
  /\ a.user_id = b.user_id

\* .eq('contest_id', ..).eq('problem_id', ..).eq('user_id', ..)
Matching(table, b) == { row \in table : SameKey(row, b) }

\* .single(): the row when exactly one row matches, an error otherwise
Single(found) ==
  IF Cardinality(found) = 1 THEN (CHOOSE row \in found : TRUE).id ELSE NoRow

\* .insert({contest_id, problem_id, user_id, score, total_tests})
InsertRow(table, id, b) ==
  table \cup { [id |-> id, contest_id |-> b.contest_id,
                problem_id |-> b.problem_id, user_id |-> b.user_id,
                score |-> b.score, total_tests |-> b.total_tests] }

\* .update({score, total_tests, submitted_at}).eq('id', id)
UpdateRow(table, id, b) ==
  { IF row.id = id
    THEN [row EXCEPT !.score = b.score, !.total_tests = b.total_tests]
    ELSE row : row \in table }

\* the handler up to its first await: the 400 answer or the lookup query
SubEntry(s) ==
  /\ subPc[s] = "new"
  /\ \E problem \in {"", "p1"}, score \in 0..MaxScore :
       LET b == [contest_id |-> "c1", problem_id |-> problem, user_id |-> "u1",
                 score |-> score, total_tests |-> MaxScore]
       IN  /\ subBody' = [subBody EXCEPT ![s] = b]
           /\ IF b.contest_id = "" \/ b.problem_id = ""
              THEN /\ subStatus' = [subStatus EXCEPT ![s] = 400]
                   /\ subPc' = [subPc EXCEPT ![s] = "done"]
              ELSE /\ subPc' = [subPc EXCEPT ![s] = "check"]
                   /\ UNCHANGED subStatus
  /\ UNCHANGED << judgeVars, rows, subFound >>

\* the lookup answers: checkError === null && existingSubmission, or not
SubCheckDone(s) ==
  /\ subPc[s] = "check"
  /\ LET id == Single(Matching(rows, subBody[s]))
     IN  /\ subFound' = [subFound EXCEPT ![s] = id]
         /\ subPc' = [subPc EXCEPT ![s] = IF id # NoRow THEN "update" ELSE "insert"]
  /\ UNCHANGED << judgeVars, rows, subBody, subStatus >>

\* the update answers
SubUpdateDone(s) ==
  /\ subPc[s] = "update"
  /\ \/ /\ rows' = UpdateRow(rows, subFound[s], subBody[s])
        /\ subStatus' = [subStatus EXCEPT ![s] = 200]
     \/ /\ subStatus' = [subStatus EXCEPT ![s] = 500]
        /\ UNCHANGED rows
  /\ subPc' = [subPc EXCEPT ![s] = "done"]
  /\ UNCHANGED << judgeVars, subBody, subFound >>

\* the insert answers
SubInsertDone(s) ==
  /\ subPc[s] = "insert"
  /\ \/ /\ rows' = InsertRow(rows, s, subBody[s])
        /\ subStatus' = [subStatus EXCEPT ![s] = 200]
     \/ /\ subStatus' = [subStatus EXCEPT ![s] = 500]
        /\ UNCHANGED rows
  /\ subPc' = [subPc EXCEPT ![s] = "done"]
  /\ UNCHANGED << judgeVars, subBody, subFound >>

SubNext ==
  \E s \in Submitters :
    \/ SubEntry(s)
    \/ SubCheckDone(s)
    \/ SubUpdateDone(s)
    \/ SubInsertDone(s)

SubSpec == Init /\ [][SubNext]_vars

\* total_score of the leaderboard: the scores of the user's rows, added up
RECURSIVE SumScores(_)
SumScores(table) ==
  IF table = {} THEN 0
  ELSE LET row == CHOOSE x \in table : TRUE
       IN  row.score + SumScores(table \ {row})

TotalScore(table, user) == SumScores({ row \in table : row.user_id = user })

\* ------------------------------------------------------------------ claims
PassedIn(res) == Cardinality({ i \in 1..Len(res) : res[i].passed })

\* C1: every report that is sent has as many results as totalTests, which is
\* the number of test cases loaded, and its passedTests is the number of
\* results with passed = TRUE, whatever the outcomes of the test cases were.
C1_ReportCounts ==
  \A r \in Requests :
    /\ passedTests[r] = PassedIn(results[r])
    /\ response[r].sent =>
         /\ Len(response[r].results) = response[r].totalTests
         /\ response[r].totalTests = Len(testCases[r])
         /\ response[r].passedTests = PassedIn(response[r].results)

C1_Witness ==
  \E r \in Requests :
    /\ response[r].sent
    /\ response[r].totalTests >= 2
    /\ \E i, j \in 1..Len(response[r].results) :
         /\ response[r].results[i].passed
         /\ "error" \in DOMAIN response[r].results[j]

\* C2: the i-th result recorded belongs to the i-th test case supplied to the
\* loop, at every moment of the judging, and the report holds exactly one
\* result per test case.
C2_OrderPreserved ==
  \A r \in Requests :
    /\ Len(results[r]) <= Len(testCases[r])
    /\ \A i \in 1..Len(results[r]) :
         results[r][i].testCaseId = testCases[r][i].id
    /\ response[r].sent =>
         /\ response[r].results = results[r]
         /\ Len(results[r]) = Len(testCases[r])

C2_Witness ==
  \E r \in Requests :
    /\ response[r].sent
    /\ Len(results[r]) >= 2
    /\ results[r][1].testCaseId = "t2"
    /\ results[r][2].testCaseId = "t1"

\* C3: a test case whose program ran longer than the timeout has a result
\* with passed = FALSE, and its child was no longer alive when the result
\* was produced.
C3_TimeoutFailsReaped ==
  \A r \in Requests : \A i \in RunIds(r) :
    (runs[r][i].timer = "fired" /\ runs[r][i].settled) =>
      /\ ~runs[r][i].result.passed
      /\ ~runs[r][i].aliveAtResult

\* C4: every execution of a test case eventually produces a TestResult.
C4_EveryRunSettles ==
  \A i \in 1..MaxTests :
    (Len(runs["r1"]) >= i) ~> (Len(runs["r1"]) >= i /\ runs["r1"][i].settled)

\* C5: an exception raised while orchestrating the child never escapes: it
\* is turned, by the catch block, into a result with passed = FALSE.
C5_ExceptionsBecomeResults ==
  /\ ~crashed
  /\ \A r \in Requests : \A i \in RunIds(r) :
       runs[r][i].exc # "none" =>
         /\ runs[r][i].settled
         /\ runs[r][i].via = "catch"
         /\ ~runs[r][i].result.passed

\* C6: once the test cases are loaded, every one of them is eventually
\* executed, whatever happened to the earlier ones.
C6_AllTestsRun ==
  (pc["r1"] = "judging") ~> (Len(runs["r1"]) = Len(testCases["r1"]))

\* C7: at most one child of a submission is alive at any moment, and when
\* the child of test case i+1 exists, the child of test case i has
\* terminated and its result has been recorded.
C7_Sequential ==
  \A r \in Requests :
    /\ Cardinality({ i \in RunIds(r) : runs[r][i].proc = "alive" }) <= 1
    /\ \A i \in RunIds(r) :
         i < Len(runs[r]) => (runs[r][i].proc # "alive" /\ i <= Len(results[r]))

\* C8: once a response has been sent for a request that uploaded a file, the
\* file no longer exists.
C8_FileDeleted ==
  \A r \in Requests :
    (status[r] # 0 /\ body[r].hasFile) => FileOwner(files, path[r]) = "missing"

\* C9: while a submission is being judged its program file is present and
\* holds that submission's own upload, and every child of the submission
\* runs that submission's own program.
C9_NoInterference ==
  \A r \in Requests :
    /\ pc[r] = "judging" => FileOwner(files, path[r]) = r
    /\ \A i \in RunIds(r) : runs[r][i].prog \in {"none", r}

IsBlank(s) == \A i \in 1..Len(s) : s[i] \in WhiteSpace

\* a and b are the same text up to white space at their two ends
SameUpToOuterSpace(a, b) ==
  \E i \in 1..(Len(a) + 1), k \in 1..(Len(b) + 1) :
    \E j \in (i - 1)..Len(a), l \in (k - 1)..Len(b) :
      /\ IsBlank(SubSeq(a, 1, i - 1)) /\ IsBlank(SubSeq(a, j + 1, Len(a)))
      /\ IsBlank(SubSeq(b, 1, k - 1)) /\ IsBlank(SubSeq(b, l + 1, Len(b)))
      /\ SubSeq(a, i, j) = SubSeq(b, k, l)
      /\ i <= j => (a[i] \notin WhiteSpace /\ a[j] \notin WhiteSpace)
      /\ k <= l => (b[k] \notin WhiteSpace /\ b[l] \notin WhiteSpace)

\* C10: a result computed by the close handler for exit status 0 has
\* passed = TRUE exactly when stdout and the expected output are the same
\* text up to leading and trailing white space.
C10_TrimmedEquality ==
  \A r \in Requests : \A i \in RunIds(r) :
    (runs[r][i].via = "close" /\ runs[r][i].code = 0) =>
      (runs[r][i].result.passed <=>
         SameUpToOuterSpace(runs[r][i].stdout, runs[r][i].tc.expected_output))

\* passes with white space trimmed on the stdout side, and fails on an
\* interior difference
C10_Witness ==
  \E r \in Requests : \E i \in RunIds(r) :
    /\ runs[r][i].via = "close" /\ runs[r][i].code = 0
    /\ runs[r][i].result.passed
    /\ runs[r][i].stdout = <<" ", "4", "2", " ", "\n">>
    /\ runs[r][i].tc.expected_output = <<"4", "2", "\n">>

\* C11: a result computed by the close handler for an exit status other
\* than 0 has passed = FALSE and a non-empty error, and carries neither
\* actualOutput nor expectedOutput, whatever the child wrote to stdout.
C11_NonZeroExitFails ==
  \A r \in Requests : \A i \in RunIds(r) :
    (runs[r][i].via = "close" /\ runs[r][i].code # 0) =>
      /\ ~runs[r][i].result.passed
      /\ "error" \in DOMAIN runs[r][i].result
      /\ runs[r][i].result.error # <<>>
      /\ "actualOutput" \notin DOMAIN runs[r][i].result
      /\ "expectedOutput" \notin DOMAIN runs[r][i].result

\* the child printed exactly the expected output and exited with status 1
C11_Witness ==
  \E r \in Requests : \E i \in RunIds(r) :
    /\ runs[r][i].via = "close" /\ runs[r][i].code = 1
    /\ runs[r][i].timer = "off"
    /\ runs[r][i].stderr = <<>>
    /\ Trim(runs[r][i].stdout) = Trim(runs[r][i].tc.expected_output)
    /\ ~runs[r][i].result.passed

\* the error texts of results for a child that exited by itself with a
\* status other than 0, and for a child that could not be launched
FailureErrors(tc) ==
  { CloseResult(tc, code, <<>>, e).error :
      code \in {1, ENOFILE}, e \in ErrOutputs \cup { <<>> } }
    \cup { ErrorResult(tc, <<"spawn python3 ENOENT">>).error }

\* C12: the error of a test case whose child was terminated at the timeout
\* tells the timeout: it is not an error text that a non-zero exit or a
\* launch failure of the same test case produces.
C12_TimeoutDistinct ==
  \A r \in Requests : \A i \in RunIds(r) :
    (/\ runs[r][i].timer = "fired"
     /\ runs[r][i].via = "close"
     /\ "error" \in DOMAIN runs[r][i].result) =>
      runs[r][i].result.error \notin FailureErrors(runs[r][i].tc)

\* C13: the result of a test case whose timeout was reached has
\* passed = FALSE and an error, and carries no output comparison
\* (no actualOutput, no expectedOutput), whatever the child did after the
\* termination signal.
C13_NoComparisonAtTimeout ==
  \A r \in Requests : \A i \in RunIds(r) :
    (runs[r][i].timer = "fired" /\ runs[r][i].via # "none") =>
      /\ "error" \in DOMAIN runs[r][i].result
      /\ "actualOutput" \notin DOMAIN runs[r][i].result
      /\ "expectedOutput" \notin DOMAIN runs[r][i].result

\* the result of the i-th call of request r: the one its promise holds while
\* the loop has not taken it, the recorded one afterwards
ResultOf(r, i) ==
  IF i <= Len(results[r]) THEN results[r][i] ELSE runs[r][i].result

\* C14: the result of a test case whose child could not be launched has
\* passed = FALSE, the message of the operating system's error as its error
\* and no output comparison, from the 'error' event on: the close event
\* that follows neither replaces it nor adds a result.
C14_LaunchFailure ==
  \A r \in Requests :
    /\ Len(results[r]) <= Len(runs[r])
    /\ \A i \in RunIds(r) :
         (runs[r][i].launch = "fail" /\ runs[r][i].settled) =>
           /\ ~ResultOf(r, i).passed
           /\ ResultOf(r, i).error = <<"spawn python3 ENOENT">>
           /\ "actualOutput" \notin DOMAIN ResultOf(r, i)
           /\ "expectedOutput" \notin DOMAIN ResultOf(r, i)

\* the close event of a child that could not be launched has been handled,
\* and the request has been answered
C14_Witness ==
  \E r \in Requests : \E i \in RunIds(r) :
    /\ runs[r][i].launch = "fail"
    /\ runs[r][i].proc = "closed"
    /\ response[r].sent
    /\ response[r].results[i].error = <<"spawn python3 ENOENT">>

\* C15: in every path of a call the result is produced only when the
\* child it spawned is no longer alive.
C15_ReapedBeforeResult ==
  \A r \in Requests : \A i \in RunIds(r) :
    runs[r][i].via # "none" => ~runs[r][i].aliveAtResult

\* C16: a request whose test cases have been loaded and whose judging has
\* begun is answered with status 200 and the report, whatever happens to
\* its test cases.
C16_JudgingAnswers200 ==
  (pc["r1"] = "judging") ~> (status["r1"] = 200 /\ response["r1"].sent)

\* C17 as stated: a status other than 200 is sent only when the file, the
\* problem (its id or its row) or the test cases are missing.
C17_OnlyInfrastructureFailures ==
  \A r \in Requests :
    status[r] \notin {0, 200} =>
      \/ ~body[r].hasFile
      \/ body[r].problemId = ""
      \/ answers[r].problem \in {"norow", "error"}
      \/ answers[r].tests = "error"

\* C17, amended: every status sent has its cause: 400 a missing file,
\* problemId or userId; 403 a user that is not verified or whose lookup
\* failed; 404 a problem that was not found; 500 a failed test_cases query;
\* and 200, sent together with the report, none of these.
C17_StatusCauses ==
  \A r \in Requests :
    LET complete == body[r].hasFile /\ body[r].problemId # "" /\ body[r].userId # ""
        verified == answers[r].verify = "verified"
        found    == answers[r].problem = "found"
    IN  status[r] # 0 =>
          \/ status[r] = 400 /\ ~complete
          \/ status[r] = 403 /\ complete
                /\ answers[r].verify \in {"error", "norow", "unverified"}
          \/ status[r] = 404 /\ complete /\ verified
                /\ answers[r].problem \in {"error", "norow"}
          \/ status[r] = 500 /\ complete /\ verified /\ found
                /\ answers[r].tests = "error"
          \/ status[r] = 200 /\ complete /\ verified /\ found
                /\ answers[r].tests = "ok" /\ response[r].sent

\* a complete request for an existing problem is refused: its user is not
\* verified
C17_Witness ==
  \E r \in Requests :
    /\ status[r] = 403
    /\ body[r].hasFile /\ body[r].problemId = "p1" /\ body[r].userId = "u2"
    /\ answers[r].verify = "unverified"

\* C18: a request whose problem has no test cases spawns no process and is
\* answered with status 200 and the report of 0 passed out of 0, score
\* "0/0", with no results.
C18_EmptyTestList ==
  \A r \in Requests :
    (answers[r].tests = "ok" /\ testCases[r] = <<>>) =>
      /\ runs[r] = <<>>
      /\ status[r] = 200
      /\ response[r] = [sent |-> TRUE, score |-> <<"0", "/", "0">>,
                        passedTests |-> 0, totalTests |-> 0, results |-> <<>>]

C18_Witness ==
  \E r \in Requests :
    /\ answers[r].tests = "ok"
    /\ testCases[r] = <<>>
    /\ pc[r] = "done"
    /\ response[r].sent

\* the result is the terminal state Failed(withError)
FailedWithError(result) ==
  /\ ~result.passed
  /\ "error" \in DOMAIN result
  /\ "actualOutput" \notin DOMAIN result

\* C19: an execution that has produced its result took one branch of the
\* state machine and ended in the terminal state of that branch:
\*   SpawnFailed and TimedOut              -> Failed(withError)
\*   Completed(code), code other than 0    -> Failed(withError)
\*   Completed(0) -> OutputCompared        -> Passed or Failed
\* and the result the loop recorded for it is the one it produced.
C19_StateMachine ==
  \A r \in Requests : \A i \in RunIds(r) :
    LET run == runs[r][i]
        spawnFailed == run.launch # "ok"
        timedOut == run.timer = "fired"
    IN  run.via # "none" =>
          /\ (spawnFailed \/ timedOut) => FailedWithError(run.result)
          /\ (~spawnFailed /\ ~timedOut) =>
                /\ run.proc = "closed"
                /\ run.code # 0 => FailedWithError(run.result)
                /\ run.code = 0 => "actualOutput" \in DOMAIN run.result
          /\ i <= Len(results[r]) => results[r][i] = run.result

RECURSIVE IsNumeral(_, _)
IsNumeral(s, n) ==
  /\ s # <<>>
  /\ \E d \in 0..9 :
       /\ s[Len(s)] = Digits[d + 1]
       /\ n % 10 = d
       /\ IF Len(s) = 1 THEN n = d
          ELSE n >= 10 /\ IsNumeral(SubSeq(s, 1, Len(s) - 1), n \div 10)

\* C21: the score of every report is the numeral of the report's
\* passedTests, a slash, and the numeral of the report's totalTests.
C21_ScoreString ==
  \A r \in Requests :
    response[r].sent =>
      \E k \in 1..Len(response[r].score) :
        /\ response[r].score[k] = "/"
        /\ IsNumeral(SubSeq(response[r].score, 1, k - 1), response[r].passedTests)
        /\ IsNumeral(SubSeq(response[r].score, k + 1, Len(response[r].score)),
                     response[r].totalTests)

\* a report of one passed test case out of two
C21_Witness ==
  \E r \in Requests :
    /\ response[r].sent
    /\ response[r].passedTests = 1
    /\ response[r].totalTests = 2
    /\ response[r].score = <<"1", "/", "2">>

\* t is s without the white space at its two ends
IsTrimOf(t, s) ==
  \E i \in 1..(Len(s) + 1) : \E j \in (i - 1)..Len(s) :
    /\ t = SubSeq(s, i, j)
    /\ IsBlank(SubSeq(s, 1, i - 1)) /\ IsBlank(SubSeq(s, j + 1, Len(s)))
    /\ i <= j => (s[i] \notin WhiteSpace /\ s[j] \notin WhiteSpace)

\* C22: a result computed by the close handler for exit status 0 carries
\* actualOutput, the trimmed stdout, and expectedOutput, the trimmed expected
\* output, and no error, whether it passed or not; when it passed the two
\* are equal.
C22_ExitZeroFields ==
  \A r \in Requests : \A i \in RunIds(r) :
    LET run == runs[r][i]
    IN  (run.via = "close" /\ run.code = 0) =>
          /\ {"actualOutput", "expectedOutput"} \subseteq DOMAIN run.result
          /\ "error" \notin DOMAIN run.result
          /\ IsTrimOf(run.result.actualOutput, run.stdout)
          /\ IsTrimOf(run.result.expectedOutput, run.tc.expected_output)
          /\ run.result.passed =>
                run.result.actualOutput = run.result.expectedOutput

\* a wrong answer with white space around it
C22_Witness ==
  \E r \in Requests : \E i \in RunIds(r) :
    /\ runs[r][i].via = "close" /\ runs[r][i].code = 0
    /\ ~runs[r][i].result.passed
    /\ runs[r][i].stdout = <<" ", "4", "2", " ", "\n">>
    /\ runs[r][i].result.actualOutput = <<"4", "2">>
    /\ runs[r][i].result.expectedOutput = <<"4", " ", "2">>

\* C23: a result computed by the close handler is computed from the whole
\* output of its child: at every later moment the stdout it compared and
\* the stderr it reported are all that the child's streams have delivered.
C23_CompleteOutput ==
  \A r \in Requests : \A i \in RunIds(r) :
    LET run == runs[r][i]
    IN  run.via = "close" =>
          /\ run.stdout = run.out /\ run.stderr = run.err
          /\ run.code = 0 => run.result.actualOutput = Trim(run.out)
          /\ (run.code # 0 /\ run.err # <<>>) => run.result.error = run.err

\* the recorded result of a finished child holds the output its stream
\* delivered
C23_Witness ==
  \E r \in Requests : \E i \in RunIds(r) :
    /\ runs[r][i].via = "close" /\ runs[r][i].code = 0
    /\ runs[r][i].out = <<"4">>
    /\ runs[r][i].result.actualOutput = <<"4">>
    /\ i <= Len(results[r])

\* C24: from the moment a call has spawned its child, the test case's
\* input has been written to the child's stdin, unchanged, in one write, and
\* the stdin has been ended; this stays so while the judge waits for the
\* child and afterwards.
C24_StdinWrittenAndClosed ==
  \A r \in Requests : \A i \in RunIds(r) :
    runs[r][i].launch = "ok" =>
      /\ runs[r][i].stdin.data = testCases[r][i].input
      /\ runs[r][i].stdin.writes = 1
      /\ runs[r][i].stdin.ended

\* the judge waits for a child whose stdin holds the input and is ended
C24_Witness ==
  \E r \in Requests : \E i \in RunIds(r) :
    /\ runs[r][i].proc = "alive" /\ ~runs[r][i].settled
    /\ runs[r][i].stdin = [data |-> <<"7">>, writes |-> 1, ended |-> TRUE]
    /\ Len(results[r]) < i

\* C25: the error of a result computed by the close handler for an exit
\* status other than 0 is the captured stderr when there is any; otherwise
\* it is the text "Process exited with code " followed by the code (its
\* numeral, or null for a child ended by a signal).
C25_NonZeroExitError ==
  \A r \in Requests : \A i \in RunIds(r) :
    LET run == runs[r][i]
    IN  (run.via = "close" /\ run.code # 0) =>
          /\ run.stderr # <<>> => run.result.error = run.stderr
          /\ run.stderr = <<>> =>
                /\ Len(run.result.error) = 2
                /\ run.result.error[1] = "Process exited with code "
                /\ IF run.code = NullCode
                   THEN run.result.error[2] = "null"
                   ELSE IsNumeral(<< run.result.error[2] >>, run.code)

\* exit status 2 with nothing on stderr
C25_Witness ==
  \E r \in Requests : \E i \in RunIds(r) :
    /\ runs[r][i].via = "close" /\ runs[r][i].code = ENOFILE
    /\ runs[r][i].stderr = <<>>
    /\ runs[r][i].result.error = <<"Process exited with code ", "2">>

\* C26: the buffers of every call hold exactly what its own child has
\* written, the result recorded for a call is the one that call produced,
\* and the pass counter counts the recorded results that passed, whatever
\* events earlier children deliver in the meantime.
C26_NoSharedState ==
  \A r \in Requests :
    /\ passedTests[r] = PassedIn(results[r])
    /\ \A i \in RunIds(r) :
         /\ runs[r][i].stdout = runs[r][i].out
         /\ runs[r][i].stderr = runs[r][i].err
         /\ runs[r][i].tc = testCases[r][i]
         /\ (runs[r][i].via # "none" /\ i <= Len(results[r])) =>
              results[r][i] = runs[r][i].result

\* the child of the first test case is still alive and has written output
\* after its result was recorded, while the second call has its own buffers
C26_Witness ==
  \E r \in Requests :
    /\ Len(runs[r]) = 2 /\ Len(results[r]) = 1
    /\ runs[r][1].proc = "alive"
    /\ runs[r][1].out # <<>>
    /\ runs[r][2].via = "close"
    /\ runs[r][2].stdout = <<>> /\ runs[r][2].stderr = <<>>

\* C27: when a child has stopped reading before all of its input was
\* written, the failure of the write does not end the judging: the server
\* goes on, so that the call can produce its result and the remaining test
\* cases can run.
C27_WriteFailureTolerated ==
  \A r \in Requests : \A i \in RunIds(r) :
    runs[r][i].exc = "stdin" => ~crashed

\* C28: a request spawns children only when its userId is present and the
\* verified_users query has answered that the user is verified; a request
\* without userId, or whose user was not found verified, never gets past
\* the refusal: it has no child, its answer is 400 or 403, and once it is
\* answered 403 the file it uploaded is gone.
C28_UnverifiedNeverRuns ==
  \A r \in Requests :
    LET unverified ==
          /\ pc[r] # "new"
          /\ \/ body[r].userId = ""
             \/ answers[r].verify \in {"error", "norow", "unverified"}
             \/ body[r].userId # "u1" /\ answers[r].verify # "none"
    IN  /\ unverified =>
             /\ runs[r] = <<>>
             /\ pc[r] \in {"uploaded", "done"}
             /\ status[r] \in {0, 400, 403}
             /\ pc[r] = "done" => status[r] \in {400, 403}
        /\ (unverified /\ status[r] = 403) =>
             FileOwner(files, path[r]) # r
        /\ runs[r] # <<>> =>
             body[r].userId = "u1" /\ answers[r].verify = "verified"

\* the request of a user who is not verified has been refused and its file
\* deleted; nothing was spawned
C28_Witness ==
  \E r \in Requests :
    /\ body[r].hasFile /\ body[r].userId = "u2"
    /\ answers[r].verify = "unverified"
    /\ status[r] = 403 /\ pc[r] = "done"
    /\ runs[r] = <<>>
    /\ FileOwner(files, path[r]) = "missing"

\* C29: contest_submissions never holds two rows with the same
\* (contest_id, problem_id, user_id), so that the total_score of a user is
\* at most the number of tests of the problems submitted.
C29_OneRowPerKey ==
  /\ \A a, b \in rows : SameKey(a, b) => a = b
  /\ TotalScore(rows, "u1") <= MaxScore

====
